---- MODULE Spec2Model ----
(***************************************************************************)
(* Model of xpra/client/mixins/network_listener.py: the Networklistener    *)
(* mixin.  It accepts connections on the client's listening sockets,       *)
(* wraps each one in a SocketProtocol, keeps the unauthenticated instances *)
(* in _potential_protocols, answers the request carried by a hello packet  *)
(* and arms a close timer (_close_timers) for every instance it answered.  *)
(* Every callback runs to completion on the main loop, so each callback is *)
(* one action.                                                             *)
(***************************************************************************)
EXTENDS Integers, Sequences, FiniteSets, TLC

\* ---- program constants -------------------------------------------------
MAX_CONCURRENT_CONNECTIONS == 5
REQUEST_TIMEOUT == 10
CONNECTION_LOST == "connection-lost"
GIBBERISH == "gibberish"
PROTOCOL_ERROR == "protocol-error"
DETACH_REQUEST == "detach-request"
None == "None"
ExitCodeOK == "OK"

\* ---- bounds of the model -----------------------------------------------
\* Eight families of runs are explored.  Spec follows the dialogue of one peer
\* in depth; SpecFlood lets more connections arrive than the listener admits
\* and keeps the dialogue short; SpecRequest sends one hello with any request
\* name; SpecNegotiation sends one hello with any capabilities; SpecShutdown
\* tears the listener down more than once, with cleanup actions that raise;
\* SpecOrder lets packets wait in the read path of their instance;
\* SpecSockets lets connections arrive on the accepted sockets only;
\* SpecReplies sends several requests on one instance.
\* connections that arrive on the listeners in one run of Spec
MaxConns == 1
\* packets delivered to process_network_packet in one run of Spec
MaxPackets == 2
\* connections that arrive on the listeners in one run of SpecFlood
FloodConns == 6
\* packets delivered to process_network_packet in one run of SpecFlood
FloodPackets == 1
\* hello packets that carry a request in one run
MaxRequests == 1
\* invocations of cleanup() in one run of Spec, SpecFlood and SpecRequest
MaxCleanups == 1
\* connections and packets in one run of SpecRequest
RequestConns == 1
RequestPackets == 1
\* connections, packets and invocations of cleanup() in one run of SpecShutdown
ShutdownConns == 1
ShutdownPackets == 1
ShutdownCleanups == 2
\* connections and packets in one run of SpecOrder, and the packets that can
\* wait in the read path of one instance
OrderConns == 1
OrderPackets == 2
MaxInbox == 2
\* connections and packets in one run of SpecNegotiation
NegotiationConns == 1
NegotiationPackets == 1
\* connections and packets in one run of SpecSockets
SocketConns == 6
SocketPackets == 1
\* connections and hello packets with a request in one run of SpecReplies
ReplyConns == 1
ReplyPackets == 2
\* the instances whose peer sends packets; the other peers stay silent
Talkers == {1}

\* ---- inputs --------------------------------------------------------------
\* sockets that create_sockets() can return for the explicit bind options;
\* "tcp" stands for every type that is accepted with accept_connection()
ExplicitSockets == {"tcp"}
\* sockets that setup_local_sockets() can return
LocalSockets == {"named-pipe"}
\* the order in which the sockets dictionary is iterated (insertion order)
SocketOrder == <<"tcp", "named-pipe">>
\* request names a hello can carry: the nine of the dispatcher, one that is
\* unknown to it, and the empty string for a hello without a request
KnownRequests == {"info", "id", "detach", "version", "show-menu", "show-about",
                  "show-session-info", "connect_test", "command"}
Requests == KnownRequests \cup {"bogus"}
\* packet types other than hello, connection-lost and gibberish
OtherPacketTypes == {"ping"}

VARIABLES
    pc,                   \* "constructed", "initialised", "running", "failed"
    exit_code,            \* self.exit_code
    sockets,              \* keys of self.sockets (one socket per type)
    socket_info,          \* keys of self.socket_info / self.socket_options
    socket_cleanup,       \* self.socket_cleanup: list of listener cleanups
    potential_protocols,  \* self._potential_protocols: list of instances
    close_timers,         \* self._close_timers: instance -> timer id
    listening,            \* listeners polled by the main loop
    idle,                 \* main loop: queue of idle_add tasks
    timers,               \* main loop: scheduled timeout_add timers
    next_tid,             \* main loop: next source id
    nconn,                \* connections that arrived so far
    conn_closed,          \* connections closed by handle_new_connection
    started,              \* instances on which start() was called
    closed,               \* instance -> number of close() calls made here
    received,             \* instance -> types of the packets delivered to the callback
    sent,                 \* instance -> packets handed to send_now/send_disconnect
    wire,                 \* instance -> packets the instance has queued for its peer
    negotiated,           \* instance -> codecs chosen by the runs of the negotiation hooks
    inbox,                \* instance -> packets decoded and not yet handed to the callback
    delivered,            \* instance -> receipt numbers of the packets handed to the callback
    done_callbacks,       \* disconnects whose done_callback has not run yet
    effects,              \* effects outside this layer (handlers, warnings), in order
    cleanup_log,          \* cleanup actions invoked, in order
    npackets,             \* packets processed so far
    nrequests,            \* hello packets with a request processed so far
    request_log,          \* calls of is_request_allowed: instance, request, answer
    ncleanups,            \* cleanup() invocations so far
    raised                \* callbacks that an exception has left

vars == <<pc, exit_code, sockets, socket_info, socket_cleanup, potential_protocols,
          close_timers, listening, idle, timers, next_tid, nconn, conn_closed,
          started, closed, received, sent, wire, negotiated, done_callbacks, effects, cleanup_log, npackets, nrequests,
          request_log, inbox, delivered, ncleanups, raised>>

\* ---- helpers --------------------------------------------------------------
\* list.remove(x): drops the first occurrence of x
RECURSIVE ListRemove(_, _)
ListRemove(l, x) ==
    IF l = <<>> THEN <<>>
    ELSE IF Head(l) = x THEN Tail(l)
    ELSE <<Head(l)>> \o ListRemove(Tail(l), x)

InList(l, x) == \E i \in 1..Len(l) : l[i] = x

\* the elements of l that belong to S, in the order of l
RECURSIVE Filter(_, _)
Filter(l, S) ==
    IF l = <<>> THEN <<>>
    ELSE (IF Head(l) \in S THEN <<Head(l)>> ELSE <<>>) \o Filter(Tail(l), S)

\* dict.pop(k, None) seen as the remaining dictionary
DictWithout(d, k) == [x \in DOMAIN d \ {k} |-> d[x]]

\* d[k] = v
DictSet(d, k, v) == [x \in DOMAIN d \cup {k} |-> IF x = k THEN v ELSE d[x]]

EmptyDict == [x \in {} |-> 0]

\* an idle_add task: the function, the instance it closes over, its argument
Task(fn, proto, arg) == [fn |-> fn, proto |-> proto, arg |-> arg]

\* a call of send_now (type "hello") or send_disconnect (type "disconnect")
HelloPacket(data) == [type |-> "hello", data |-> data, reasons |-> <<>>, done_callback |-> FALSE]
DisconnectPacket(reasons, cb) ==
    [type |-> "disconnect", data |-> <<>>, reasons |-> reasons, done_callback |-> cb]


\* ---- construction ---------------------------------------------------------
Init ==
    /\ pc = "constructed"
    /\ exit_code = None
    /\ sockets = {}
    /\ socket_info = {}
    /\ socket_cleanup = <<>>
    /\ potential_protocols = <<>>
    /\ close_timers = EmptyDict
    /\ listening = {}
    /\ idle = <<>>
    /\ timers = {}
    /\ next_tid = 1
    /\ nconn = 0
    /\ conn_closed = {}
    /\ started = {}
    /\ closed = EmptyDict
    /\ received = EmptyDict
    /\ sent = EmptyDict
    /\ wire = EmptyDict
    /\ negotiated = EmptyDict
    /\ inbox = EmptyDict
    /\ delivered = EmptyDict
    /\ done_callbacks = {}
    /\ effects = <<>>
    /\ cleanup_log = <<>>
    /\ npackets = 0
    /\ nrequests = 0
    /\ request_log = <<>>
    /\ ncleanups = 0
    /\ raised = {}

\* ---- startup ----------------------------------------------------------------
\* the variables of the per-connection bookkeeping
connvars == <<potential_protocols, close_timers, timers, next_tid, nconn, conn_closed,
              started, closed, received, sent, wire, negotiated, done_callbacks, npackets, nrequests, request_log, inbox, delivered>>

\* lines 69-70: the warning logged when setup_local_sockets() fails
LocalSocketsWarning == "Warning: failed to create the client sockets"

\* init(opts) without the try / except of lines 58-70: a failure of
\* setup_local_sockets() leaves init() like a failure of create_sockets()
init_strict(explicit, create_fails, local_outcome) ==
    /\ pc = "constructed"
    /\ IF create_fails \/ local_outcome # "ok"
       THEN /\ pc' = "failed"
            /\ sockets' = IF create_fails THEN sockets ELSE explicit
            /\ raised' = raised \cup {"init"}
       ELSE /\ pc' = "initialised"
            /\ sockets' = explicit \cup LocalSockets
            /\ raised' = raised
    /\ UNCHANGED <<exit_code, socket_info, socket_cleanup, listening, idle, effects,
                   cleanup_log, ncleanups>>
    /\ UNCHANGED connvars

\* init(opts): create_sockets() calls err() for an endpoint it cannot create,
\* which raises InitException; a failure of setup_local_sockets() with
\* OSError, InitExit or ImportError is logged as a warning
init(explicit, create_fails, local_outcome) ==
    /\ pc = "constructed"
    /\ IF create_fails
       THEN /\ pc' = "failed"
            /\ sockets' = sockets
            /\ raised' = raised \cup {"init"}
            /\ effects' = effects
       ELSE /\ pc' = "initialised"
            /\ sockets' = IF local_outcome = "ok" THEN explicit \cup LocalSockets
                                                 ELSE explicit
            /\ raised' = raised
            /\ effects' = IF local_outcome = "ok" THEN effects
                                                  ELSE Append(effects, LocalSocketsWarning)
    /\ UNCHANGED <<exit_code, socket_info, socket_cleanup, listening, idle,
                   cleanup_log, ncleanups>>
    /\ UNCHANGED connvars

\* run() -> start_listen_sockets(): one add_listen_socket idle task per socket
start_listen_sockets ==
    /\ pc = "initialised"
    /\ pc' = "running"
    /\ socket_info' = socket_info \cup sockets
    /\ idle' = idle \o [i \in 1..Len(Filter(SocketOrder, sockets)) |->
                          Task("add_listen_socket", 0, Filter(SocketOrder, sockets)[i])]
    /\ raised' = raised
    /\ UNCHANGED <<exit_code, sockets, socket_cleanup, listening, effects,
                   cleanup_log, ncleanups>>
    /\ UNCHANGED connvars

\* idle task add_listen_socket(socktype, sock, options): registers
\* _new_connection for the socket and keeps the cleanup it is given
add_listen_socket ==
    /\ idle # <<>>
    /\ Head(idle).fn = "add_listen_socket"
    /\ idle' = Tail(idle)
    /\ listening' = listening \cup {Head(idle).arg}
    /\ socket_cleanup' = Append(socket_cleanup, Head(idle).arg)
    /\ raised' = raised
    /\ UNCHANGED <<pc, exit_code, sockets, socket_info, effects, cleanup_log, ncleanups>>
    /\ UNCHANGED connvars

\* ---- accepting connections ----------------------------------------------------
\* the test of line 142 with > for >=
too_many_strict == Len(potential_protocols) > MAX_CONCURRENT_CONNECTIONS

\* line 142: the test that refuses a connection
too_many == Len(potential_protocols) >= MAX_CONCURRENT_CONNECTIONS

\* the per-instance state, created by make_protocol
protovars == <<closed, received, sent, wire, negotiated, inbox, delivered>>

\* make_protocol(socktype, conn, listener): the instance takes the number of
\* its connection
make_protocol(p) ==
    /\ potential_protocols' = Append(potential_protocols, p)
    /\ started' = started \cup {p}
    /\ closed' = DictSet(closed, p, 0)
    /\ received' = DictSet(received, p, <<>>)
    /\ sent' = DictSet(sent, p, <<>>)
    /\ wire' = DictSet(wire, p, <<>>)
    /\ negotiated' = DictSet(negotiated, p, <<>>)
    /\ inbox' = DictSet(inbox, p, <<>>)
    /\ delivered' = DictSet(delivered, p, <<>>)
    /\ conn_closed' = conn_closed

\* handle_new_connection(socktype, listener, handle); outcome is what
\* accept_connection() or the NamedPipeConnection constructor does:
\* "ok", "none" (accept_connection returns None) or "raise"
handle_new_connection(socktype, p, outcome) ==
    IF outcome = "raise"
    THEN UNCHANGED <<potential_protocols, started, conn_closed, protovars>>
    ELSE IF socktype = "named-pipe"
    THEN make_protocol(p)
    ELSE IF outcome = "none"
    THEN UNCHANGED <<potential_protocols, started, conn_closed, protovars>>
    ELSE IF too_many
    THEN /\ conn_closed' = conn_closed \cup {p}
         /\ UNCHANGED <<potential_protocols, started, protovars>>
    ELSE make_protocol(p)

\* _new_connection without the test of lines 122-124: the connection is
\* handled whatever the exit code
new_connection_during_shutdown(socktype, outcome, max_conns) ==
    /\ socktype \in listening
    /\ nconn < max_conns
    /\ outcome = "none" => socktype # "named-pipe"
    /\ nconn' = IF outcome = "ok" THEN nconn + 1 ELSE nconn
    /\ handle_new_connection(socktype, nconn + 1, outcome)
    /\ listening' = IF exit_code # None THEN listening \ {socktype} ELSE listening
    /\ UNCHANGED <<pc, exit_code, sockets, socket_info, socket_cleanup, idle, effects,
                   cleanup_log, ncleanups, raised>>
    /\ UNCHANGED <<close_timers, timers, next_tid, done_callbacks, npackets, nrequests, request_log>>

\* _new_connection(socktype, listener, handle): the callback of a listener;
\* returning False removes the listener from the main loop
new_connection(socktype, outcome, max_conns) ==
    /\ socktype \in listening
    /\ IF exit_code # None
       THEN /\ listening' = listening \ {socktype}
            /\ UNCHANGED <<potential_protocols, started, conn_closed, nconn, protovars>>
       ELSE /\ nconn < max_conns
            /\ outcome = "none" => socktype # "named-pipe"
            /\ nconn' = IF outcome = "ok" THEN nconn + 1 ELSE nconn
            /\ handle_new_connection(socktype, nconn + 1, outcome)
            /\ listening' = listening
    /\ UNCHANGED <<pc, exit_code, sockets, socket_info, socket_cleanup, idle, effects,
                   cleanup_log, ncleanups, raised>>
    /\ UNCHANGED <<close_timers, timers, next_tid, done_callbacks, npackets, nrequests, request_log>>

\* ---- packets ------------------------------------------------------------------
\* the receive path of the protocol wrapper: decoded packets are delivered
\* while the instance is open; connection-lost is reported once, and nothing
\* is decoded after a gibberish or connection-lost report or after close()
can_receive(p, ptype) ==
    /\ p \in started
    /\ p \in Talkers
    /\ ~InList(received[p], CONNECTION_LOST)
    /\ ptype # CONNECTION_LOST => ~InList(received[p], GIBBERISH) /\ closed[p] = 0

\* get_id_info() that also tells the display of the session
get_id_info_display ==
    ("session-type" :> "client") @@ ("session-name" :> "session_name")
    @@ ("platform" :> "sys.platform") @@ ("pid" :> "getpid") @@ ("machine-id" :> "machine_id")
    @@ ("display" :> "display")

\* get_id_info()
get_id_info ==
    ("session-type" :> "client") @@ ("session-name" :> "session_name")
    @@ ("platform" :> "sys.platform") @@ ("pid" :> "getpid") @@ ("machine-id" :> "machine_id")

\* handle_hello_request without the test of is_request_allowed: the request
\* is dispatched whatever the answer
handle_hello_request_no_gate(p, request, allowed, found) ==
    IF request = "info"
    THEN [send |-> <<>>, tasks |-> <<Task("send_info", p, "")>>]
    ELSE IF request = "id"
    THEN [send |-> <<HelloPacket(get_id_info)>>, tasks |-> <<>>]
    ELSE IF request = "detach"
    THEN [send |-> <<DisconnectPacket(<<DETACH_REQUEST>>, TRUE)>>, tasks |-> <<>>]
    ELSE IF request = "version"
    THEN [send |-> <<HelloPacket("version" :> "version_str")>>, tasks |-> <<>>]
    ELSE IF request \in {"show-menu", "show-about", "show-session-info"}
    THEN IF ~found
         THEN [send |-> <<HelloPacket("error" :> <<request, "not found">>)>>, tasks |-> <<>>]
         ELSE [send |-> <<HelloPacket(<<>>)>>,
               tasks |-> <<Task(CASE request = "show-menu" -> "show_menu"
                                  [] request = "show-about" -> "show_about"
                                  [] OTHER -> "show_session_info", 0, "")>>]
    ELSE IF request = "connect_test"
    THEN [send |-> <<HelloPacket(<<>>)>>, tasks |-> <<>>]
    ELSE IF request = "command"
    THEN [send |-> <<>>, tasks |-> <<Task("process_control", p, "command_request")>>]
    ELSE [send |-> <<DisconnectPacket(<<PROTOCOL_ERROR>>, FALSE)>>, tasks |-> <<>>]

\* handle_hello_request that tells a denied peer why it is disconnected
handle_hello_request_tells(p, request, allowed, found) ==
    IF ~allowed
    THEN [send |-> <<DisconnectPacket(<<PROTOCOL_ERROR, "request not allowed">>, FALSE)>>,
          tasks |-> <<>>]
    ELSE handle_hello_request_no_gate(p, request, allowed, found)

\* handle_hello_request that answers a request it does not know with an
\* empty hello
handle_hello_request_answers_unknown(p, request, allowed, found) ==
    IF ~allowed
    THEN [send |-> <<DisconnectPacket(<<PROTOCOL_ERROR>>, FALSE)>>, tasks |-> <<>>]
    ELSE IF request \notin {"info", "id", "detach", "version", "show-menu", "show-about",
                            "show-session-info", "connect_test", "command"}
    THEN [send |-> <<HelloPacket(<<>>)>>, tasks |-> <<>>]
    ELSE handle_hello_request_no_gate(p, request, allowed, found)

\* handle_hello_request whose version reply also carries the build revision
handle_hello_request_version_build(p, request, allowed, found) ==
    IF ~allowed
    THEN [send |-> <<DisconnectPacket(<<PROTOCOL_ERROR>>, FALSE)>>, tasks |-> <<>>]
    ELSE IF request = "version"
    THEN [send |-> <<HelloPacket(("version" :> "version_str") @@ ("revision" :> "revision"))>>,
          tasks |-> <<>>]
    ELSE handle_hello_request_no_gate(p, request, allowed, found)

\* handle_hello_request that leaves the acknowledgement of a show-* request
\* to the UI action: the action is scheduled and nothing is replied
handle_hello_request_ui_replies(p, request, allowed, found) ==
    IF ~allowed
    THEN [send |-> <<DisconnectPacket(<<PROTOCOL_ERROR>>, FALSE)>>, tasks |-> <<>>]
    ELSE IF request \in {"show-menu", "show-about", "show-session-info"} /\ found
    THEN [send |-> <<>>,
          tasks |-> handle_hello_request_no_gate(p, request, allowed, found).tasks]
    ELSE handle_hello_request_no_gate(p, request, allowed, found)

\* handle_hello_request that acknowledges an info request at once and still
\* schedules send_info
handle_hello_request_info_acks(p, request, allowed, found) ==
    IF allowed /\ request = "info"
    THEN [send |-> <<HelloPacket(<<>>)>>, tasks |-> <<Task("send_info", p, "")>>]
    ELSE IF ~allowed
    THEN [send |-> <<DisconnectPacket(<<PROTOCOL_ERROR>>, FALSE)>>, tasks |-> <<>>]
    ELSE handle_hello_request_no_gate(p, request, allowed, found)

\* what handle_hello_request does: the packets it sends and the tasks it
\* schedules.  allowed is the answer of is_request_allowed(proto, request),
\* found tells whether getattr() finds the UI method of a show-* request.
handle_hello_request(p, request, allowed, found) ==
    IF ~allowed
    THEN [send |-> <<DisconnectPacket(<<PROTOCOL_ERROR>>, FALSE)>>, tasks |-> <<>>]
    ELSE IF request = "info"
    THEN [send |-> <<>>, tasks |-> <<Task("send_info", p, "")>>]
    ELSE IF request = "id"
    THEN [send |-> <<HelloPacket(get_id_info)>>, tasks |-> <<>>]
    ELSE IF request = "detach"
    THEN [send |-> <<DisconnectPacket(<<DETACH_REQUEST>>, TRUE)>>, tasks |-> <<>>]
    ELSE IF request = "version"
    THEN [send |-> <<HelloPacket("version" :> "version_str")>>, tasks |-> <<>>]
    ELSE IF request \in {"show-menu", "show-about", "show-session-info"}
    THEN IF ~found
         THEN [send |-> <<HelloPacket("error" :> <<request, "not found">>)>>, tasks |-> <<>>]
         ELSE [send |-> <<HelloPacket(<<>>)>>,
               tasks |-> <<Task(CASE request = "show-menu" -> "show_menu"
                                  [] request = "show-about" -> "show_about"
                                  [] OTHER -> "show_session_info", 0, "")>>]
    ELSE IF request = "connect_test"
    THEN [send |-> <<HelloPacket(<<>>)>>, tasks |-> <<>>]
    ELSE IF request = "command"
    THEN [send |-> <<>>, tasks |-> <<Task("process_control", p, "command_request")>>]
    ELSE [send |-> <<DisconnectPacket(<<PROTOCOL_ERROR>>, FALSE)>>, tasks |-> <<>>]

\* process_network_packet without the return after close(): a connection-lost
\* or gibberish packet falls through to timeout_add
packet_result_no_return(p, ptype, request, allowed, found) ==
    IF ptype = "hello"
    THEN [negotiates |-> TRUE, closes |-> FALSE, arms |-> TRUE,
          send |-> IF request # "" THEN handle_hello_request(p, request, allowed, found).send
                                   ELSE <<>>,
          tasks |-> IF request # "" THEN handle_hello_request(p, request, allowed, found).tasks
                                    ELSE <<>>]
    ELSE IF ptype \in {CONNECTION_LOST, GIBBERISH}
    THEN [negotiates |-> FALSE, closes |-> TRUE, arms |-> TRUE, send |-> <<>>, tasks |-> <<>>]
    ELSE [negotiates |-> FALSE, closes |-> FALSE, arms |-> TRUE,
          send |-> <<DisconnectPacket(<<PROTOCOL_ERROR>>, FALSE)>>, tasks |-> <<>>]

\* process_network_packet that treats every packet other than hello as a
\* lost connection: the instance is dropped without a disconnect
packet_result_drop_unknown(p, ptype, request, allowed, found) ==
    IF ptype = "hello"
    THEN [negotiates |-> TRUE, closes |-> FALSE, arms |-> TRUE,
          send |-> IF request # "" THEN handle_hello_request(p, request, allowed, found).send
                                   ELSE <<>>,
          tasks |-> IF request # "" THEN handle_hello_request(p, request, allowed, found).tasks
                                    ELSE <<>>]
    ELSE [negotiates |-> FALSE, closes |-> TRUE, arms |-> FALSE, send |-> <<>>, tasks |-> <<>>]

\* process_network_packet that returns once a request is handled: the timer
\* is armed only for a hello without a request
packet_result_return_after_request(p, ptype, request, allowed, found) ==
    IF ptype = "hello"
    THEN [negotiates |-> TRUE, closes |-> FALSE, arms |-> request = "",
          send |-> IF request # "" THEN handle_hello_request(p, request, allowed, found).send
                                   ELSE <<>>,
          tasks |-> IF request # "" THEN handle_hello_request(p, request, allowed, found).tasks
                                    ELSE <<>>]
    ELSE IF ptype \in {CONNECTION_LOST, GIBBERISH}
    THEN [negotiates |-> FALSE, closes |-> TRUE, arms |-> FALSE, send |-> <<>>, tasks |-> <<>>]
    ELSE [negotiates |-> FALSE, closes |-> FALSE, arms |-> TRUE,
          send |-> <<DisconnectPacket(<<PROTOCOL_ERROR>>, FALSE)>>, tasks |-> <<>>]

\* process_network_packet that arms the timer inside the test of the
\* request: a hello without a request arms none
packet_result_timer_for_request(p, ptype, request, allowed, found) ==
    IF ptype = "hello"
    THEN [negotiates |-> TRUE, closes |-> FALSE, arms |-> request # "",
          send |-> IF request # "" THEN handle_hello_request(p, request, allowed, found).send
                                   ELSE <<>>,
          tasks |-> IF request # "" THEN handle_hello_request(p, request, allowed, found).tasks
                                    ELSE <<>>]
    ELSE IF ptype \in {CONNECTION_LOST, GIBBERISH}
    THEN [negotiates |-> FALSE, closes |-> TRUE, arms |-> FALSE, send |-> <<>>, tasks |-> <<>>]
    ELSE [negotiates |-> FALSE, closes |-> FALSE, arms |-> TRUE,
          send |-> <<DisconnectPacket(<<PROTOCOL_ERROR>>, FALSE)>>, tasks |-> <<>>]

\* the body of process_network_packet up to the timer: what the packet makes
\* the handler do.  closes: close() is run and the handler returns;
\* arms: the handler reaches timeout_add.
packet_result(p, ptype, request, allowed, found) ==
    IF ptype = "hello"
    THEN [negotiates |-> TRUE, closes |-> FALSE, arms |-> TRUE,
          send |-> IF request # "" THEN handle_hello_request(p, request, allowed, found).send
                                   ELSE <<>>,
          tasks |-> IF request # "" THEN handle_hello_request(p, request, allowed, found).tasks
                                    ELSE <<>>]
    ELSE IF ptype \in {CONNECTION_LOST, GIBBERISH}
    THEN [negotiates |-> FALSE, closes |-> TRUE, arms |-> FALSE, send |-> <<>>, tasks |-> <<>>]
    ELSE [negotiates |-> FALSE, closes |-> FALSE, arms |-> TRUE,
          send |-> <<DisconnectPacket(<<PROTOCOL_ERROR>>, FALSE)>>, tasks |-> <<>>]

\* list.remove(proto) without the try / except: the ValueError of an
\* instance that is not in the list leaves close()
remove_protocol_raises(l, p) ==
    IF InList(l, p) THEN [list |-> ListRemove(l, p), raised |-> FALSE]
                    ELSE [list |-> l, raised |-> TRUE]

\* list.remove(proto) inside try / except ValueError: pass
remove_protocol(l, p) ==
    IF InList(l, p) THEN [list |-> ListRemove(l, p), raised |-> FALSE]
                    ELSE [list |-> l, raised |-> FALSE]

\* close() without the test of the popped timer: the instance is closed on
\* every run of close()
close_unguarded(p) ==
    [close_timers |-> DictWithout(close_timers, p),
     closed |-> [closed EXCEPT ![p] = @ + 1],
     potential_protocols |-> remove_protocol(potential_protocols, p).list,
     raised |-> remove_protocol(potential_protocols, p).raised]

\* close() that reads the timer entry with get() instead of pop(): the entry
\* stays in the map
close_keeps_entry(p) ==
    [close_timers |-> close_timers,
     closed |-> IF p \in DOMAIN close_timers THEN [closed EXCEPT ![p] = @ + 1] ELSE closed,
     potential_protocols |-> remove_protocol(potential_protocols, p).list,
     raised |-> remove_protocol(potential_protocols, p).raised]

\* close(), the closure of process_network_packet that is also the timer
\* callback: pops the timer entry, closes the instance if there was one
\* and removes the instance from the list
close(p) ==
    [close_timers |-> DictWithout(close_timers, p),
     closed |-> IF p \in DOMAIN close_timers THEN [closed EXCEPT ![p] = @ + 1] ELSE closed,
     potential_protocols |-> remove_protocol(potential_protocols, p).list,
     raised |-> remove_protocol(potential_protocols, p).raised]

\* lines 194-195: tid = timeout_add(REQUEST_TIMEOUT * 1000, close)
timeout_add(p) == timers \cup {[tid |-> next_tid, proto |-> p, delay |-> REQUEST_TIMEOUT * 1000]}

\* protocol_closed given as done_callback to every send_disconnect, that of
\* the protocol-error disconnects included
new_callbacks_every_disconnect(p, send) ==
    {[proto |-> p, index |-> Len(sent[p]) + i] : i \in {j \in 1..Len(send) : send[j].type = "disconnect"}}

\* the done_callback registrations of the packets a handler sends
new_callbacks(p, send) ==
    {[proto |-> p, index |-> Len(sent[p]) + i] : i \in {j \in 1..Len(send) : send[j].done_callback}}

\* a wrapper that queues a packet whether the instance is closed or not
send_now_after_close(p, packets) == [wire EXCEPT ![p] = @ \o packets]

\* proto.send_now(packet) and proto.send_disconnect(reasons): the packets are
\* queued for the peer; after close() the call does nothing
send_now(p, packets) == [wire EXCEPT ![p] = IF closed[p] > 0 THEN @ ELSE @ \o packets]

\* the capabilities of a hello: "missing" when the packet has no second
\* element, else whether the codecs it advertises have some in common with
\* the local ones ("common") or none ("disjoint")
Caps == {"common", "disjoint", "missing"}

\* the codec chosen when the peer's codecs and the local ones have none in common
RawCodec == "none"

\* proto.enable_compressor_from_caps(caps) and proto.enable_encoder_from_caps(caps):
\* the codecs the instance uses from then on
enable_codecs_from_caps(caps) ==
    IF caps = "disjoint" THEN [compressor |-> RawCodec, encoder |-> RawCodec]
                         ELSE [compressor |-> "lz4", encoder |-> "rencodeplus"]

\* a handler that reads the request of a hello only once a codec is shared
hello_request_needs_codec(request, caps) == IF caps = "disjoint" THEN "" ELSE request

\* lines 184-185: request = caps.strget("request"), the request that is
\* dispatched for a hello
hello_request(request, caps) == request

\* process_network_packet(proto, packet).  A hello without capabilities
\* raises IndexError on packet[1] (line 180) before anything is done.
process_network_packet(p, ptype, request, allowed, found, caps, max_packets) ==
    /\ npackets < max_packets
    /\ can_receive(p, ptype)
    /\ npackets' = npackets + 1
    /\ nrequests' = IF request # "" THEN nrequests + 1 ELSE nrequests
    /\ received' = [received EXCEPT ![p] = Append(@, ptype)]
    /\ IF ptype = "hello" /\ caps = "missing"
       THEN /\ raised' = raised \cup {"process_network_packet"}
            /\ UNCHANGED <<request_log, negotiated, sent, wire, done_callbacks, idle, closed,
                           potential_protocols, timers, next_tid, close_timers>>
       ELSE LET req == hello_request(request, caps)
                r == packet_result(p, ptype, req, allowed, found)
            IN
            /\ request_log' = IF req # ""
                              THEN Append(request_log, [proto |-> p, request |-> req,
                                                        allowed |-> allowed])
                              ELSE request_log
            /\ negotiated' = IF r.negotiates
                             THEN [negotiated EXCEPT ![p] = Append(@, enable_codecs_from_caps(caps))]
                             ELSE negotiated
            /\ sent' = [sent EXCEPT ![p] = @ \o r.send]
            /\ wire' = send_now(p, r.send)
            /\ done_callbacks' = done_callbacks \cup new_callbacks(p, r.send)
            /\ idle' = idle \o r.tasks
            /\ closed' = IF r.closes THEN close(p).closed ELSE closed
            /\ potential_protocols' =
                   IF r.closes THEN close(p).potential_protocols ELSE potential_protocols
            /\ timers' = IF r.arms THEN timeout_add(p) ELSE timers
            /\ next_tid' = IF r.arms THEN next_tid + 1 ELSE next_tid
            /\ close_timers' =
                   IF r.arms THEN DictSet(IF r.closes THEN close(p).close_timers ELSE close_timers,
                                          p, next_tid)
                   ELSE IF r.closes THEN close(p).close_timers ELSE close_timers
            /\ raised' = IF r.closes /\ close(p).raised
                          THEN raised \cup {"process_network_packet"} ELSE raised
    /\ UNCHANGED <<pc, exit_code, sockets, socket_info, socket_cleanup, listening, effects,
                   cleanup_log, ncleanups, nconn, conn_closed, started>>

\* ---- the read path of the protocol wrapper ----------------------------------
\* a packet is decoded and handed to the callback at once
read_packet(p, ptype, request, allowed, found, caps, max_packets) ==
    /\ inbox[p] = <<>>
    /\ process_network_packet(p, ptype, request, allowed, found, caps, max_packets)
    /\ delivered' = [delivered EXCEPT ![p] = Append(@, Len(@) + 1)]
    /\ inbox' = inbox

\* a packet is decoded while the callback has not been given the packets
\* before it: it is queued with its receipt number
receive(p, ptype, max_packets, max_inbox) ==
    /\ p \in started
    /\ p \in Talkers
    /\ closed[p] = 0
    /\ \A t \in {CONNECTION_LOST, GIBBERISH} :
          /\ ~InList(received[p], t)
          /\ \A i \in 1..Len(inbox[p]) : inbox[p][i].ptype # t
    /\ Len(inbox[p]) < max_inbox
    /\ npackets + Len(inbox[p]) < max_packets
    /\ inbox' = [inbox EXCEPT ![p] =
                    Append(@, [seq |-> Len(delivered[p]) + Len(@) + 1, ptype |-> ptype])]
    /\ UNCHANGED <<pc, exit_code, sockets, socket_info, socket_cleanup, listening, idle,
                   effects, cleanup_log, ncleanups, raised, potential_protocols, close_timers,
                   timers, next_tid, nconn, conn_closed, started, closed, received, sent, wire,
                   negotiated, done_callbacks, npackets, nrequests, request_log, delivered>>

\* a read path that hands the packet decoded last to the callback first
deliver_newest(p, max_packets) ==
    /\ p \in started
    /\ inbox[p] # <<>>
    /\ process_network_packet(p, inbox[p][Len(inbox[p])].ptype, "", TRUE, TRUE, "common",
                              max_packets)
    /\ delivered' = [delivered EXCEPT ![p] = Append(@, inbox[p][Len(inbox[p])].seq)]
    /\ inbox' = [inbox EXCEPT ![p] = SubSeq(@, 1, Len(@) - 1)]

\* the callback is given the oldest of the queued packets of an instance
deliver(p, max_packets) ==
    /\ p \in started
    /\ inbox[p] # <<>>
    /\ process_network_packet(p, Head(inbox[p]).ptype, "", TRUE, TRUE, "common", max_packets)
    /\ delivered' = [delivered EXCEPT ![p] = Append(@, Head(inbox[p]).seq)]
    /\ inbox' = [inbox EXCEPT ![p] = Tail(@)]

\* a timer callback that tells the peer before it closes the instance: a
\* disconnect is sent when the timer finds its entry in the timer map
timer_fires_notify(t) ==
    /\ t \in timers
    /\ \A u \in timers : t.tid <= u.tid
    /\ timers' = timers \ {t}
    /\ close_timers' = close(t.proto).close_timers
    /\ closed' = close(t.proto).closed
    /\ potential_protocols' = close(t.proto).potential_protocols
    /\ raised' = IF close(t.proto).raised THEN raised \cup {"close"} ELSE raised
    /\ sent' = IF t.proto \in DOMAIN close_timers
               THEN [sent EXCEPT ![t.proto] = Append(@, DisconnectPacket(<<"timeout">>, FALSE))]
               ELSE sent
    /\ wire' = IF t.proto \in DOMAIN close_timers
               THEN send_now(t.proto, <<DisconnectPacket(<<"timeout">>, FALSE)>>)
               ELSE wire
    /\ UNCHANGED <<pc, exit_code, sockets, socket_info, socket_cleanup, listening, idle,
                   effects, cleanup_log, ncleanups, next_tid, nconn, conn_closed, started,
                   received, negotiated, done_callbacks, npackets, nrequests, request_log, inbox, delivered>>

\* a timer fires: the main loop runs close() for the instance of the timer and
\* drops the timer, as the callback returns None.  All timers have the same
\* delay, so they fire in the order in which they were armed.
timer_fires(t) ==
    /\ t \in timers
    /\ \A u \in timers : t.tid <= u.tid
    /\ timers' = timers \ {t}
    /\ close_timers' = close(t.proto).close_timers
    /\ closed' = close(t.proto).closed
    /\ potential_protocols' = close(t.proto).potential_protocols
    /\ raised' = IF close(t.proto).raised THEN raised \cup {"close"} ELSE raised
    /\ UNCHANGED <<pc, exit_code, sockets, socket_info, socket_cleanup, listening, idle,
                   effects, cleanup_log, ncleanups, next_tid, nconn, conn_closed, started,
                   received, sent, wire, negotiated, done_callbacks, npackets, nrequests, request_log, inbox, delivered>>

\* ---- deferred tasks ---------------------------------------------------------
\* idle task send_info(): replies with the session information; display tells
\* whether a display name is added to it
send_info(display) ==
    /\ idle # <<>>
    /\ Head(idle).fn = "send_info"
    /\ idle' = Tail(idle)
    /\ sent' = [sent EXCEPT ![Head(idle).proto] =
                   Append(@, HelloPacket(("network" :> "network_caps")
                                         @@ ("session-type" :> "session_type client")
                                         @@ (IF display THEN ("display" :> "display") ELSE <<>>)))]
    /\ wire' = send_now(Head(idle).proto, <<sent'[Head(idle).proto][Len(sent'[Head(idle).proto])]>>)
    /\ raised' = raised
    /\ UNCHANGED <<pc, exit_code, sockets, socket_info, socket_cleanup, listening, effects,
                   cleanup_log, ncleanups, potential_protocols, close_timers, timers,
                   next_tid, nconn, conn_closed, started, closed, received, negotiated,
                   done_callbacks, npackets, nrequests, request_log, inbox, delivered>>

\* ExitCode.FAILURE
ExitCodeFAILURE == "FAILURE"

\* int(code) of an ExitCode
int_code(code) == IF code = ExitCodeOK THEN 0 ELSE 1

\* process_control() without the try / except around _process_control(): the
\* exception leaves the task and no reply is sent
process_control_propagates(ok) ==
    /\ idle # <<>>
    /\ Head(idle).fn = "process_control"
    /\ idle' = Tail(idle)
    /\ effects' = Append(effects, IF ok THEN "_process_control" ELSE "_process_control raised")
    /\ sent' = IF ok
               THEN [sent EXCEPT ![Head(idle).proto] =
                        Append(@, HelloPacket("command_response" :> <<int_code(ExitCodeOK), "done">>))]
               ELSE sent
    /\ wire' = IF ok
               THEN send_now(Head(idle).proto,
                             <<HelloPacket("command_response" :> <<int_code(ExitCodeOK), "done">>)>>)
               ELSE wire
    /\ raised' = IF ok THEN raised ELSE raised \cup {"process_control"}
    /\ UNCHANGED <<pc, exit_code, sockets, socket_info, socket_cleanup, listening,
                   cleanup_log, ncleanups, potential_protocols, close_timers, timers,
                   next_tid, nconn, conn_closed, started, closed, received, negotiated,
                   done_callbacks, npackets, nrequests, request_log, inbox, delivered>>

\* idle task process_control(): runs the command; ok tells whether
\* _process_control() returns or raises
process_control(ok) ==
    /\ idle # <<>>
    /\ Head(idle).fn = "process_control"
    /\ idle' = Tail(idle)
    /\ effects' = Append(effects, IF ok THEN "_process_control" ELSE "_process_control raised")
    /\ sent' = [sent EXCEPT ![Head(idle).proto] =
                   Append(@, HelloPacket("command_response" :>
                                            (IF ok THEN <<int_code(ExitCodeOK), "done">>
                                                   ELSE <<int_code(ExitCodeFAILURE), "error">>)))]
    /\ wire' = send_now(Head(idle).proto, <<sent'[Head(idle).proto][Len(sent'[Head(idle).proto])]>>)
    /\ raised' = raised
    /\ UNCHANGED <<pc, exit_code, sockets, socket_info, socket_cleanup, listening,
                   cleanup_log, ncleanups, potential_protocols, close_timers, timers,
                   next_tid, nconn, conn_closed, started, closed, received, negotiated,
                   done_callbacks, npackets, nrequests, request_log, inbox, delivered>>

\* idle task of a show-* request: the UI method runs
ui_action ==
    /\ idle # <<>>
    /\ Head(idle).fn \in {"show_menu", "show_about", "show_session_info"}
    /\ idle' = Tail(idle)
    /\ effects' = Append(effects, Head(idle).fn)
    /\ raised' = raised
    /\ UNCHANGED <<pc, exit_code, sockets, socket_info, socket_cleanup, listening,
                   cleanup_log, ncleanups>>
    /\ UNCHANGED connvars

\* protocol_closed(): the done_callback of the detach disconnect;
\* disconnect_and_quit() sets the exit code of the client
protocol_closed(cb) ==
    /\ cb \in done_callbacks
    /\ done_callbacks' = done_callbacks \ {cb}
    /\ exit_code' = ExitCodeOK
    /\ effects' = Append(effects, "disconnect_and_quit")
    /\ raised' = raised
    /\ UNCHANGED <<pc, sockets, socket_info, socket_cleanup, listening, idle,
                   cleanup_log, ncleanups, potential_protocols, close_timers, timers,
                   next_tid, nconn, conn_closed, started, closed, received, sent, wire, negotiated,
                   npackets, nrequests, request_log, inbox, delivered>>

\* ---- shutdown ------------------------------------------------------------------
\* a cleanup action that was invoked; raised tells whether it raised
CleanupAction(kind, sock) == [kind |-> kind, sock |-> sock]
Invoked(c, failing) == [kind |-> c.kind, sock |-> c.sock, raised |-> c \in failing]

\* with log.trap_error(...): an exception raised in the body is logged and
\* does not leave the with statement.  The result tells whether it does.
trap_error(raises) == FALSE

\* the listener cleanups of self.socket_cleanup in the order of the for loop
\* of lines 89-91
listener_cleanups == [i \in 1..Len(socket_cleanup) |-> CleanupAction("listener", socket_cleanup[i])]

\* the cleanups of the socket definitions in the order of the for loop of
\* lines 95-98
socket_cleanups ==
    [i \in 1..Len(Filter(SocketOrder, sockets)) |->
        CleanupAction("socket", Filter(SocketOrder, sockets)[i])]

\* the cleanup actions a sequence of loops invokes: each one up to the first
\* whose exception leaves its with statement
RECURSIVE run_cleanups(_, _)
run_cleanups(cs, failing) ==
    IF cs = <<>> THEN [log |-> <<>>, raised |-> FALSE]
    ELSE IF trap_error(Head(cs) \in failing)
    THEN [log |-> <<Invoked(Head(cs), failing)>>, raised |-> TRUE]
    ELSE [log |-> <<Invoked(Head(cs), failing)>> \o run_cleanups(Tail(cs), failing).log,
          raised |-> run_cleanups(Tail(cs), failing).raised]

\* cleanup_sockets() with self.socket_cleanup left as it is: the list is not
\* emptied once its cleanups are taken
cleanup_sockets_keep_list(failing) ==
    /\ pc = "running"
    /\ ncleanups' = ncleanups + 1
    /\ close_timers' = EmptyDict
    /\ timers' = {t \in timers : \A p \in DOMAIN close_timers : close_timers[p] # t.tid}
    /\ closed' = [p \in DOMAIN closed |->
                      IF p \in DOMAIN close_timers THEN closed[p] + 1 ELSE closed[p]]
    /\ socket_cleanup' = socket_cleanup
    /\ sockets' = {}
    /\ cleanup_log' = cleanup_log \o run_cleanups(listener_cleanups \o socket_cleanups, failing).log
    /\ listening' = {s \in listening : ~InList(socket_cleanup, s) /\ s \notin sockets}
    /\ raised' = raised
    /\ UNCHANGED <<pc, exit_code, socket_info, idle, effects, potential_protocols, next_tid,
                   nconn, conn_closed, started, received, sent, wire, negotiated, done_callbacks,
                   npackets, nrequests, request_log, inbox, delivered>>

\* cleanup_sockets() with one trap_error around both loops: the first cleanup
\* that raises ends the teardown
cleanup_sockets_abort(failing) ==
    /\ pc = "running"
    /\ ncleanups' = ncleanups + 1
    /\ close_timers' = EmptyDict
    /\ timers' = {t \in timers : \A p \in DOMAIN close_timers : close_timers[p] # t.tid}
    /\ closed' = [p \in DOMAIN closed |->
                      IF p \in DOMAIN close_timers THEN closed[p] + 1 ELSE closed[p]]
    /\ socket_cleanup' = <<>>
    /\ sockets' = {}
    /\ LET all == listener_cleanups \o socket_cleanups
           n == IF \E i \in 1..Len(all) : all[i] \in failing
                THEN CHOOSE i \in 1..Len(all) :
                        all[i] \in failing /\ \A j \in 1..(i - 1) : all[j] \notin failing
                ELSE Len(all)
       IN cleanup_log' = cleanup_log \o [i \in 1..n |-> Invoked(all[i], failing)]
    /\ listening' = {s \in listening : ~InList(socket_cleanup, s) /\ s \notin sockets}
    /\ raised' = raised
    /\ UNCHANGED <<pc, exit_code, socket_info, idle, effects, potential_protocols, next_tid,
                   nconn, conn_closed, started, received, sent, wire, negotiated, done_callbacks,
                   npackets, nrequests, request_log, inbox, delivered>>

\* cleanup() -> cleanup_sockets(); failing is the set of cleanup actions that
\* raise, each inside its own log.trap_error.  The cleanup actions of a socket
\* stop its listener.
cleanup_sockets(failing) ==
    /\ pc = "running"
    /\ ncleanups' = ncleanups + 1
    /\ close_timers' = EmptyDict
    /\ timers' = {t \in timers : \A p \in DOMAIN close_timers : close_timers[p] # t.tid}
    /\ closed' = [p \in DOMAIN closed |->
                      IF p \in DOMAIN close_timers THEN closed[p] + 1 ELSE closed[p]]
    /\ socket_cleanup' = <<>>
    /\ LET listeners == run_cleanups(listener_cleanups, failing)
           socks == run_cleanups(socket_cleanups, failing)
       IN IF listeners.raised
          THEN /\ sockets' = sockets
               /\ cleanup_log' = cleanup_log \o listeners.log
               /\ raised' = raised \cup {"cleanup_sockets"}
          ELSE /\ sockets' = {}
               /\ cleanup_log' = cleanup_log \o listeners.log \o socks.log
               /\ raised' = IF socks.raised THEN raised \cup {"cleanup_sockets"} ELSE raised
    /\ listening' = {s \in listening : ~InList(socket_cleanup, s) /\ s \notin sockets}
    /\ UNCHANGED <<pc, exit_code, socket_info, idle, effects, potential_protocols, next_tid,
                   nconn, conn_closed, started, received, sent, wire, negotiated, done_callbacks,
                   npackets, nrequests, request_log, inbox, delivered>>

\* ---- the program ------------------------------------------------------------------
SockTypes == ExplicitSockets \cup LocalSockets
PacketTypes == {"hello", CONNECTION_LOST, GIBBERISH} \cup OtherPacketTypes
UIRequests == {"show-menu", "show-about", "show-session-info"}
\* the cleanup actions that cleanup_sockets() would invoke now
PendingCleanups ==
    {CleanupAction("listener", socket_cleanup[i]) : i \in 1..Len(socket_cleanup)}
    \cup {CleanupAction("socket", s) : s \in sockets}

\* the requests of the peers of the runs that follow a dialogue or a teardown:
\* one request for each deferred task of the dispatcher
TaskRequests == {"info", "detach", "show-menu", "command"}

\* one step of the main loop, for runs of at most max_conns connections,
\* max_packets packets and max_cleanups invocations of cleanup(), with peers
\* whose requests are in requests and whose hellos have capabilities in caps;
\* may_fail tells whether a cleanup action can raise
Step(max_conns, max_packets, max_cleanups, requests, caps, may_fail) ==
    \/ \E explicit \in {ExplicitSockets}, create_fails \in BOOLEAN,
          local_outcome \in {"ok", "OSError", "InitExit", "ImportError"} :
            init(explicit, create_fails, local_outcome)
    \/ start_listen_sockets
    \/ add_listen_socket
    \/ \E socktype \in SockTypes, outcome \in {"ok", "none", "raise"} :
            new_connection(socktype, outcome, max_conns)
    \/ \E p \in started, ptype \in PacketTypes, request \in requests \cup {""},
          allowed \in BOOLEAN, found \in BOOLEAN, c \in caps :
            /\ ptype # "hello" => request = "" /\ c = "common"
            /\ c = "missing" => request = ""
            /\ request = "" => allowed
            /\ request \notin UIRequests => found
            /\ request # "" => nrequests < MaxRequests
            /\ read_packet(p, ptype, request, allowed, found, c, max_packets)
    \/ \E t \in timers : timer_fires(t)
    \/ \E display \in BOOLEAN : send_info(display)
    \/ \E ok \in BOOLEAN : process_control(ok)
    \/ ui_action
    \/ \E cb \in done_callbacks : protocol_closed(cb)
    \/ \E failing \in {{}} \cup {{c} : c \in IF may_fail THEN PendingCleanups ELSE {}} :
            /\ ncleanups < max_cleanups
            /\ cleanup_sockets(failing)

\* the dialogue of one peer in depth
Next == Step(MaxConns, MaxPackets, MaxCleanups, TaskRequests, {"common"}, FALSE)

Spec == Init /\ [][Next]_vars

\* the runs of Spec in which the main loop does not leave a timer that is due
\* unfired for ever
SpecFair == Spec /\ WF_vars(\E t \in timers : timer_fires(t))

\* more connections than the listener admits
NextFlood == Step(FloodConns, FloodPackets, MaxCleanups, TaskRequests, {"common"}, FALSE)

SpecFlood == Init /\ [][NextFlood]_vars

\* one hello with any request of the dispatcher
NextRequest == Step(RequestConns, RequestPackets, MaxCleanups, Requests, {"common"}, FALSE)

SpecRequest == Init /\ [][NextRequest]_vars

\* one hello with any capabilities, well formed or not
NextNegotiation ==
    Step(NegotiationConns, NegotiationPackets, MaxCleanups, TaskRequests, Caps, FALSE)

SpecNegotiation == Init /\ [][NextNegotiation]_vars

\* repeated teardown with cleanup actions that raise
NextShutdown ==
    Step(ShutdownConns, ShutdownPackets, ShutdownCleanups, TaskRequests, {"common"}, TRUE)

SpecShutdown == Init /\ [][NextShutdown]_vars

\* packets without a request that wait in the read path of their instance
NextOrder ==
    \/ \E explicit \in {ExplicitSockets}, create_fails \in BOOLEAN,
          local_outcome \in {"ok", "OSError", "InitExit", "ImportError"} :
            init(explicit, create_fails, local_outcome)
    \/ start_listen_sockets
    \/ add_listen_socket
    \/ \E socktype \in SockTypes, outcome \in {"ok", "none", "raise"} :
            new_connection(socktype, outcome, OrderConns)
    \/ \E p \in started, ptype \in PacketTypes : receive(p, ptype, OrderPackets, MaxInbox)
    \/ \E p \in started : deliver(p, OrderPackets)
    \/ \E t \in timers : timer_fires(t)

SpecOrder == Init /\ [][NextOrder]_vars

\* connections that arrive on the sockets accepted with accept_connection()
\* only, with packets and timers in between
NextSockets ==
    \/ \E explicit \in {ExplicitSockets}, create_fails \in BOOLEAN,
          local_outcome \in {"ok", "OSError", "InitExit", "ImportError"} :
            init(explicit, create_fails, local_outcome)
    \/ start_listen_sockets
    \/ add_listen_socket
    \/ \E socktype \in ExplicitSockets, outcome \in {"ok", "none", "raise"} :
            new_connection(socktype, outcome, SocketConns)
    \/ \E p \in started, ptype \in PacketTypes :
            read_packet(p, ptype, "", TRUE, TRUE, "common", SocketPackets)
    \/ \E t \in timers : timer_fires(t)

SpecSockets == Init /\ [][NextSockets]_vars

\* the requests of the peers of SpecReplies: two that are answered by a task
\* and two that are answered in the handler
ReplyRequests == {"info", "command", "version", "id"}

\* permitted requests that follow each other on one instance
NextReplies ==
    \/ \E explicit \in {ExplicitSockets}, create_fails \in BOOLEAN,
          local_outcome \in {"ok", "OSError", "InitExit", "ImportError"} :
            init(explicit, create_fails, local_outcome)
    \/ start_listen_sockets
    \/ add_listen_socket
    \/ \E socktype \in SockTypes, outcome \in {"ok", "none", "raise"} :
            new_connection(socktype, outcome, ReplyConns)
    \/ \E p \in started, request \in ReplyRequests :
            read_packet(p, "hello", request, TRUE, TRUE, "common", ReplyPackets)
    \/ \E t \in timers : timer_fires(t)
    \/ \E display \in BOOLEAN : send_info(display)
    \/ \E ok \in BOOLEAN : process_control(ok)

SpecReplies == Init /\ [][NextReplies]_vars

\* ---- properties ------------------------------------------------------------------
LiveTimers(p) == {t \in timers : t.proto = p}
Pending(p) == InList(potential_protocols, p)

\* C1: the pending list never holds more than MAX_CONCURRENT_CONNECTIONS
\* instances, whatever the transport of the accepted connections.
C1_AdmissionBound == Len(potential_protocols) <= MAX_CONCURRENT_CONNECTIONS

\* C2: a connection accepted while the pending list holds the bound is closed
\* in that step; no instance is constructed or started for it, nothing is
\* sent, and the pending list and the timer map are unchanged.
C2_RejectionAtBound ==
    [][(too_many /\ exit_code = None /\ nconn' = nconn + 1)
        => /\ conn_closed' = conn_closed \cup {nconn + 1}
           /\ started' = started
           /\ sent' = sent
           /\ potential_protocols' = potential_protocols
           /\ close_timers' = close_timers]_vars

\* C3: every admitted instance that is in flight (pending and not closed) has
\* a close timer armed, so that a silent peer is evicted by the timer.
C3_TimerWhileInFlight ==
    \A p \in started : (Pending(p) /\ closed[p] = 0) => p \in DOMAIN close_timers

\* C4: an instance never has more than one live close timer.
C4_SingleLiveTimer == \A p \in started : Cardinality(LiveTimers(p)) <= 1

\* C5: once an instance has been closed, no live close timer refers to it.
C5_NoTimerSurvivesClose == \A p \in started : closed[p] > 0 => LiveTimers(p) = {}

\* C6: an instance that has been closed is neither in the pending list nor in
\* the timer map.
C6_ClosedLeavesPending ==
    \A p \in started : closed[p] > 0 => ~Pending(p) /\ p \notin DOMAIN close_timers

\* C7: an instance that has been removed from the pending list has had its
\* close() invoked, also when connection-lost or gibberish was its first packet.
C7_ClosedWhenRemoved == \A p \in started : ~Pending(p) => closed[p] >= 1

\* C8: close() is invoked at most once on each instance, across packets,
\* timer firings (stale timers included) and cleanup.
C8_ClosedAtMostOnce == \A p \in started : closed[p] <= 1

\* C8 witness: an instance was armed twice, both of its timers have fired (the
\* second one stale) and it was closed once.
C8_Witness ==
    \E p \in started : /\ closed[p] = 1
                    /\ Len(received[p]) = 2
                    /\ ~InList(received[p], CONNECTION_LOST)
                    /\ ~InList(received[p], GIBBERISH)
                    /\ ncleanups = 0
                    /\ timers = {}

\* C9: the step that processes a connection-lost or gibberish packet of an
\* instance sends nothing, schedules nothing, arms no timer, raises nothing
\* and leaves the instance out of the pending list and of the timer map.
C9_LostOrGibberish ==
    [][\A p \in started, ptype \in {CONNECTION_LOST, GIBBERISH} :
          received'[p] = Append(received[p], ptype)
          => /\ sent' = sent
             /\ idle' = idle
             /\ done_callbacks' = done_callbacks
             /\ timers' = timers
             /\ raised' = raised
             /\ ~InList(potential_protocols', p)
             /\ p \notin DOMAIN close_timers']_vars

\* C9 witness: gibberish was the first packet of an instance, and
\* connection-lost followed it.
C9_Witness ==
    \E p \in started : received[p] = <<GIBBERISH, CONNECTION_LOST>> /\ ~Pending(p)

\* C10: the step that processes a packet that is not hello, connection-lost
\* or gibberish sends one protocol-error disconnect and nothing else, runs no
\* handler, raises nothing, keeps the pending list and arms a close timer for
\* the instance.
C10_UnrecognizedPacket ==
    [][\A p \in started, ptype \in OtherPacketTypes :
          received'[p] = Append(received[p], ptype)
          => /\ sent' = [sent EXCEPT ![p] =
                             Append(@, DisconnectPacket(<<PROTOCOL_ERROR>>, FALSE))]
             /\ idle' = idle
             /\ effects' = effects
             /\ negotiated' = negotiated
             /\ raised' = raised
             /\ potential_protocols' = potential_protocols
             /\ p \in DOMAIN close_timers'
             /\ \E t \in timers' \ timers : t.proto = p /\ t.tid = close_timers'[p]]_vars

\* C10 witness: an unrecognized packet was the first packet of an instance,
\* which is still pending with its timer armed.
C10_Witness ==
    \E p \in started : /\ Len(received[p]) >= 1
                    /\ received[p][1] \in OtherPacketTypes
                    /\ Pending(p)
                    /\ p \in DOMAIN close_timers

\* the step handles the request of a hello of instance p, and
\* is_request_allowed answers allowed
Handles(p, request, allowed) ==
    request_log' = Append(request_log, [proto |-> p, request |-> request, allowed |-> allowed])

\* the step makes a handler of the dispatcher act: a task is scheduled, a
\* done_callback is registered or a hello reply is sent by the packet handler
HandlerEffect ==
    \/ Len(idle') > Len(idle) /\ pc' = pc
    \/ done_callbacks' \ done_callbacks # {}
    \/ \E p \in started : /\ idle' = idle
                         /\ Len(sent'[p]) > Len(sent[p])
                         /\ sent'[p][Len(sent'[p])].type = "hello"

\* C11: the step that handles a request for which is_request_allowed is
\* false sends one protocol-error disconnect and nothing else, schedules no
\* task, registers no done_callback, runs no command and leaves the exit
\* code; and a step in which a handler acts is one in which the predicate
\* answered true.
C11_AuthorizationGate ==
    [][/\ \A p \in started, request \in Requests :
            Handles(p, request, FALSE)
            => /\ sent' = [sent EXCEPT ![p] =
                               Append(@, DisconnectPacket(<<PROTOCOL_ERROR>>, FALSE))]
               /\ idle' = idle
               /\ done_callbacks' = done_callbacks
               /\ effects' = effects
               /\ exit_code' = exit_code
       /\ HandlerEffect
            => \E p \in started, request \in Requests : Handles(p, request, TRUE)]_vars

\* C11 witness: a detach request was denied; its peer got the protocol-error
\* disconnect and the client keeps running.
C11_Witness ==
    \E p \in started :
        /\ request_log = <<[proto |-> p, request |-> "detach", allowed |-> FALSE]>>
        /\ sent[p] = <<DisconnectPacket(<<PROTOCOL_ERROR>>, FALSE)>>
        /\ done_callbacks = {}
        /\ exit_code = None

\* C12: what the peer of a denied request observes in the step that handles
\* it (the packets sent to it, the done_callback, the close of its instance)
\* is what the handler produces from the same state for a permitted request
\* whose name the dispatcher does not know.
C12_DenialAsUnknown ==
    [][\A p \in started, request \in Requests :
          Handles(p, request, FALSE)
          => /\ sent'[p] = sent[p] \o handle_hello_request(p, "bogus", TRUE, TRUE).send
             /\ done_callbacks' = done_callbacks
                    \cup new_callbacks(p, handle_hello_request(p, "bogus", TRUE, TRUE).send)
             /\ closed'[p] = closed[p]]_vars

\* C12 witness: a request that the dispatcher knows was denied and its peer
\* was sent one packet only.
C12_Witness ==
    \E p \in started :
        /\ request_log = <<[proto |-> p, request |-> "version", allowed |-> FALSE]>>
        /\ Len(sent[p]) = 1

\* C13: the step that handles the request of a hello, whatever the request
\* and the answer of is_request_allowed, arms a new close timer for the
\* instance and records it in the timer map.
C13_TimerAfterRequest ==
    [][\A p \in started, request \in Requests, allowed \in BOOLEAN :
          Handles(p, request, allowed)
          => /\ p \in DOMAIN close_timers'
             /\ \E t \in timers' \ timers : t.proto = p /\ t.tid = close_timers'[p]]_vars

\* C13 witness: an info request was deferred to the main loop, its reply is
\* not sent yet, and the timer of its instance is armed.
C13_Witness ==
    \E p \in started :
        /\ request_log = <<[proto |-> p, request |-> "info", allowed |-> TRUE]>>
        /\ idle # <<>> /\ Head(idle).fn = "send_info"
        /\ sent[p] = <<>>
        /\ p \in DOMAIN close_timers
        /\ LiveTimers(p) # {}

\* the packet handler reached timeout_add for instance p: a hello or an
\* unrecognized packet of p has been processed
Armed(p) ==
    /\ p \in started
    /\ \E i \in 1..Len(received[p]) : received[p][i] \in {"hello"} \cup OtherPacketTypes

\* instance p is closed and is neither in the pending list nor in the timer map
Reclaimed(p) ==
    /\ p \in started
    /\ closed[p] >= 1
    /\ ~Pending(p)
    /\ p \notin DOMAIN close_timers

\* C14: with timers that fire, every instance for which a hello or an
\* unrecognized packet has been processed is eventually closed and removed
\* from the pending list and from the timer map.
C14_TimerReclaimsSlot == \A p \in 1..MaxConns : Armed(p) ~> Reclaimed(p)

\* C15: the step in which a close timer fires sends no packet to any peer,
\* registers no done_callback and schedules no task, also when it closes the
\* instance of the timer.
C15_TimeoutIsSilent ==
    [][\A t \in timers :
          (timers' = timers \ {t} /\ ncleanups' = ncleanups)
          => /\ sent' = sent
             /\ done_callbacks' = done_callbacks
             /\ idle' = idle]_vars

\* C15 witness: the timer armed by a hello has fired and closed its instance,
\* whose peer was sent nothing.
C15_Witness ==
    \E p \in started :
        /\ received[p] = <<"hello">>
        /\ closed[p] = 1
        /\ ~Pending(p)
        /\ LiveTimers(p) = {}
        /\ ncleanups = 0
        /\ sent[p] = <<>>

\* C16: when cleanup() returns, every instance that was in the pending list
\* has been closed, and the pending list and the timer map are empty.
C16_ShutdownClosesPending ==
    [][ncleanups' = ncleanups + 1
        => /\ \A i \in 1..Len(potential_protocols) : closed'[potential_protocols[i]] >= 1
           /\ potential_protocols' = <<>>
           /\ close_timers' = EmptyDict]_vars

\* the number of times cleanup action c has been invoked
Invocations(c) ==
    Cardinality({i \in 1..Len(cleanup_log) :
                    cleanup_log[i].kind = c.kind /\ cleanup_log[i].sock = c.sock})

\* the bookkeeping that cleanup_sockets() walks is empty
NothingToCleanUp == socket_cleanup = <<>> /\ sockets = {} /\ close_timers = EmptyDict

\* C17: cleanup() leaves empty bookkeeping behind, and a cleanup() that finds
\* it empty (the second of two in a row) invokes no cleanup action, closes no
\* instance and does not raise; over all the invocations of a run no listener
\* cleanup, no socket cleanup and no close of an instance is invoked twice.
C17_IdempotentTeardown ==
    [][ncleanups' = ncleanups + 1
        => /\ NothingToCleanUp'
           /\ NothingToCleanUp
                => (cleanup_log' = cleanup_log /\ closed' = closed /\ raised' = raised)
           /\ \A c \in {CleanupAction(k, t) : k \in {"listener", "socket"}, t \in SockTypes} :
                Invocations(c)' <= 1
           /\ \A p \in started : closed'[p] <= 1]_vars

\* C17 witness: cleanup() has run twice; it invoked the cleanups of a listener
\* and of its socket and closed an instance whose timer was armed.
C17_Witness ==
    /\ ncleanups = 2
    /\ Invocations(CleanupAction("listener", "tcp")) = 1
    /\ Invocations(CleanupAction("socket", "tcp")) = 1
    /\ \E p \in started : closed[p] = 1 /\ Pending(p)

\* C18: cleanup() invokes every registered listener cleanup and then the
\* cleanup of every socket definition, whichever of them raises, and does
\* not raise itself.
C18_SoftFailureTeardown ==
    [][ncleanups' = ncleanups + 1
        => /\ Len(cleanup_log') = Len(cleanup_log) + Len(socket_cleanup) + Cardinality(sockets)
           /\ \A i \in 1..Len(socket_cleanup) :
                /\ cleanup_log'[Len(cleanup_log) + i].kind = "listener"
                /\ cleanup_log'[Len(cleanup_log) + i].sock = socket_cleanup[i]
           /\ \A t \in sockets :
                \E i \in (Len(cleanup_log) + Len(socket_cleanup) + 1)..Len(cleanup_log') :
                    cleanup_log'[i].kind = "socket" /\ cleanup_log'[i].sock = t
           /\ raised' = raised]_vars

\* C18 witness: the first of two listener cleanups raised; the second one
\* and the cleanups of both sockets were invoked after it.
C18_Witness ==
    /\ ncleanups = 1
    /\ Len(cleanup_log) = 4
    /\ cleanup_log[1].kind = "listener" /\ cleanup_log[1].raised
    /\ cleanup_log[2].kind = "listener"
    /\ cleanup_log[3].kind = "socket" /\ cleanup_log[4].kind = "socket"
    /\ "cleanup_sockets" \notin raised

\* C19: cleanup() runs the listener cleanups in the reverse of the order in
\* which add_listen_socket registered them.
C19_ReverseOrderTeardown ==
    [][ncleanups' = ncleanups + 1
        => \A i \in 1..Len(socket_cleanup) :
             /\ Len(cleanup_log') >= Len(cleanup_log) + i
             /\ cleanup_log'[Len(cleanup_log) + i].sock
                    = socket_cleanup[Len(socket_cleanup) + 1 - i]]_vars

\* C20: the step that handles a permitted request whose name is not in the
\* dispatch table sends one protocol-error disconnect and no hello, schedules
\* no task, registers no done_callback and runs no handler.
C20_UnknownRequest ==
    [][\A p \in started, request \in Requests \ KnownRequests :
          Handles(p, request, TRUE)
          => /\ sent' = [sent EXCEPT ![p] =
                             Append(@, DisconnectPacket(<<PROTOCOL_ERROR>>, FALSE))]
             /\ idle' = idle
             /\ done_callbacks' = done_callbacks
             /\ effects' = effects
             /\ exit_code' = exit_code]_vars

\* C20 witness: a permitted hello asked for "bogus"; its peer was sent the
\* protocol-error disconnect and nothing else.
C20_Witness ==
    \E p \in started :
        /\ request_log = <<[proto |-> p, request |-> "bogus", allowed |-> TRUE]>>
        /\ sent[p] = <<DisconnectPacket(<<PROTOCOL_ERROR>>, FALSE)>>
        /\ idle = <<>>

\* C21: the step that handles a permitted command request runs nothing and
\* sends nothing: it schedules the process_control task.  The step that runs
\* the task runs the command once and sends one hello reply to the instance
\* of the request, with command_response (0, "done") when the command
\* returns and (1, error text) when it raises, and no exception leaves it.
C21_CommandOutcome ==
    [][/\ \A p \in started :
            Handles(p, "command", TRUE)
            => /\ sent' = sent
               /\ effects' = effects
               /\ idle' = Append(idle, Task("process_control", p, "command_request"))
       /\ (idle # <<>> /\ Head(idle).fn = "process_control" /\ idle' = Tail(idle))
            => /\ raised' = raised
               /\ \/ /\ effects' = Append(effects, "_process_control")
                     /\ sent' = [sent EXCEPT ![Head(idle).proto] =
                                    Append(@, HelloPacket("command_response" :> <<0, "done">>))]
                  \/ /\ effects' = Append(effects, "_process_control raised")
                     /\ sent' = [sent EXCEPT ![Head(idle).proto] =
                                    Append(@, HelloPacket("command_response" :> <<1, "error">>))]]_vars

\* C21 witness: the command of a request raised and its peer got the failure
\* reply.
C21_Witness ==
    \E p \in started :
        /\ request_log = <<[proto |-> p, request |-> "command", allowed |-> TRUE]>>
        /\ effects = <<"_process_control raised">>
        /\ sent[p] = <<HelloPacket("command_response" :> <<1, "error">>)>>
        /\ "process_control" \notin raised

\* C22: the step that handles a permitted detach request sends the
\* disconnect with the detach-request reason and registers its completion
\* callback, and leaves the exit code alone; disconnect_and_quit runs only in
\* a later step, the completion callback of a detach disconnect that was
\* sent before.
C22_DetachOrdering ==
    [][/\ \A p \in started :
            Handles(p, "detach", TRUE)
            => /\ sent' = [sent EXCEPT ![p] =
                               Append(@, DisconnectPacket(<<DETACH_REQUEST>>, TRUE))]
               /\ done_callbacks' = done_callbacks \cup {[proto |-> p, index |-> Len(sent[p]) + 1]}
               /\ exit_code' = exit_code
               /\ effects' = effects
       /\ (exit_code' # exit_code \/ effects' = Append(effects, "disconnect_and_quit"))
            => /\ request_log' = request_log
               /\ npackets' = npackets
               /\ \E cb \in done_callbacks \ done_callbacks' :
                    /\ cb.index <= Len(sent[cb.proto])
                    /\ sent[cb.proto][cb.index] = DisconnectPacket(<<DETACH_REQUEST>>, TRUE)]_vars

\* C22 witness: the completion callback of the detach disconnect has run and
\* set the exit code.
C22_Witness ==
    \E p \in started :
        /\ request_log = <<[proto |-> p, request |-> "detach", allowed |-> TRUE]>>
        /\ sent[p] = <<DisconnectPacket(<<DETACH_REQUEST>>, TRUE)>>
        /\ done_callbacks = {}
        /\ effects = <<"disconnect_and_quit">>
        /\ exit_code = ExitCodeOK

\* C23: the step that handles a permitted version request sends one hello
\* whose payload is {"version": version_str()} and nothing else, and
\* schedules nothing.
C23_VersionRequest ==
    [][\A p \in started :
          Handles(p, "version", TRUE)
          => /\ sent' = [sent EXCEPT ![p] = Append(@, HelloPacket("version" :> "version_str"))]
             /\ DOMAIN sent'[p][Len(sent'[p])].data = {"version"}
             /\ idle' = idle
             /\ done_callbacks' = done_callbacks]_vars

\* C23 witness: the reply to a version request is the only packet sent to
\* its peer.
C23_Witness ==
    \E p \in started :
        /\ request_log = <<[proto |-> p, request |-> "version", allowed |-> TRUE]>>
        /\ Len(sent[p]) = 1
        /\ sent[p][1].type = "hello"
        /\ sent[p][1].data["version"] = "version_str"

\* C24: the step that handles a permitted id request sends one hello whose
\* payload has the keys session-type, session-name, platform, pid and
\* machine-id and no other, and nothing else.
C24_IdRequest ==
    [][\A p \in started :
          Handles(p, "id", TRUE)
          => /\ Len(sent'[p]) = Len(sent[p]) + 1
             /\ SubSeq(sent'[p], 1, Len(sent[p])) = sent[p]
             /\ sent'[p][Len(sent'[p])].type = "hello"
             /\ DOMAIN sent'[p][Len(sent'[p])].data
                    = {"session-type", "session-name", "platform", "pid", "machine-id"}
             /\ idle' = idle
             /\ done_callbacks' = done_callbacks]_vars

\* C24 witness: the reply to an id request names the session type.
C24_Witness ==
    \E p \in started :
        /\ request_log = <<[proto |-> p, request |-> "id", allowed |-> TRUE]>>
        /\ Len(sent[p]) = 1
        /\ sent[p][1].type = "hello"
        /\ sent[p][1].data["session-type"] = "client"

\* line 234: request.replace("-", "_"), the name of the method of a show-* request
UIMethod(request) ==
    CASE request = "show-menu" -> "show_menu"
      [] request = "show-about" -> "show_about"
      [] request = "show-session-info" -> "show_session_info"

\* C25 as claimed: the step that handles a permitted show-menu, show-about or
\* show-session-info request schedules the UI action and replies with the
\* empty acknowledgement, always.
C25_UIAlwaysAcknowledged ==
    [][\A p \in started, request \in UIRequests :
          Handles(p, request, TRUE)
          => /\ sent' = [sent EXCEPT ![p] = Append(@, HelloPacket(<<>>))]
             /\ idle' = Append(idle, Task(UIMethod(request), 0, ""))
             /\ effects' = effects]_vars

\* C25 amended: the step that handles a permitted show-* request runs no UI
\* action; either it schedules the UI action of the request and replies with
\* the empty acknowledgement, or (the client has no method of that name) it
\* schedules nothing and replies with the error "<request> not found".  The
\* step that runs a UI action sends nothing.
C25_UIFireAndForget ==
    [][/\ \A p \in started, request \in UIRequests :
            Handles(p, request, TRUE)
            => /\ effects' = effects
               /\ done_callbacks' = done_callbacks
               /\ \/ /\ sent' = [sent EXCEPT ![p] = Append(@, HelloPacket(<<>>))]
                     /\ idle' = Append(idle, Task(UIMethod(request), 0, ""))
                  \/ /\ sent' = [sent EXCEPT ![p] =
                                    Append(@, HelloPacket("error" :> <<request, "not found">>))]
                     /\ idle' = idle
       /\ \A request \in UIRequests :
            (idle # <<>> /\ Head(idle).fn = UIMethod(request) /\ idle' = Tail(idle))
            => /\ effects' = Append(effects, UIMethod(request))
               /\ sent' = sent]_vars

\* C25 witness: show-about was acknowledged while its UI action is still
\* waiting on the main loop.
C25_Witness ==
    \E p \in started :
        /\ request_log = <<[proto |-> p, request |-> "show-about", allowed |-> TRUE]>>
        /\ sent[p] = <<HelloPacket(<<>>)>>
        /\ idle # <<>> /\ Head(idle).fn = "show_about"
        /\ effects = <<>>

\* the hellos of instance p whose request was dispatched
Dispatched(p) == {i \in 1..Len(request_log) : request_log[i].proto = p}

\* C26: the negotiation hooks run at most once for an instance, and only if
\* the first packet of the instance is a hello.
C26_NegotiationOnce ==
    \A p \in started :
        /\ Len(negotiated[p]) <= 1
        /\ Len(negotiated[p]) = 1 => received[p][1] = "hello"

\* C27: a request is dispatched only in the step that handles the first
\* packet of an instance, so that no instance has more than one request
\* dispatched.
C27_RequestOnlyInFirstHello ==
    [][\A p \in started, request \in Requests, allowed \in BOOLEAN :
          Handles(p, request, allowed)
          => /\ received[p] = <<>>
             /\ Cardinality(Dispatched(p)') = 1]_vars

\* the codecs of a negotiation that found none in common
RawCodecs == [compressor |-> RawCodec, encoder |-> RawCodec]

\* C28: the step that handles a hello whose codecs have none in common with
\* the local ones completes the negotiation with the raw codecs: nothing is
\* raised, the instance is neither closed nor dropped, its timer is armed,
\* and the request of the hello, if it has one, is dispatched.
C28_NegotiationFallback ==
    [][\A p \in started :
          negotiated'[p] = Append(negotiated[p], RawCodecs)
          => /\ raised' = raised
             /\ closed' = closed
             /\ InList(potential_protocols', p) = Pending(p)
             /\ p \in DOMAIN close_timers'
             /\ Len(request_log') - Len(request_log) = nrequests' - nrequests]_vars

\* C28 witness: a hello with no codec in common asked for the information of
\* the session and was answered.
C28_Witness ==
    \E p \in started :
        /\ negotiated[p] = <<RawCodecs>>
        /\ request_log = <<[proto |-> p, request |-> "info", allowed |-> TRUE]>>
        /\ Len(sent[p]) = 1
        /\ sent[p][1].type = "hello"
        /\ closed[p] = 0

C30_FailureIsolation ==
    [][/\ raised' \ raised \subseteq {"init"}
       /\ \A p \in started :
            received'[p] # received[p]
            => \A q \in started \ {p} :
                 /\ InList(potential_protocols', q) = Pending(q)
                 /\ {t \in timers' : t.proto = q} = LiveTimers(q)
                 /\ (q \in DOMAIN close_timers') = (q \in DOMAIN close_timers)
       /\ ~(listening \subseteq listening')
            => (exit_code # None \/ ncleanups' = ncleanups + 1)]_vars

\* ---- startup, replies and the close step ------------------------------------
\* C31: a failure of the optional local sockets lets init() complete with a
\* warning and with exactly the requested endpoints as its sockets; a failure
\* of a requested endpoint leaves init() with an exception, and no listener
\* is ever started after it.
C31_StartupFailurePolicy ==
    [][/\ (pc = "constructed" /\ effects' # effects)
            => /\ effects' = Append(effects, LocalSocketsWarning)
               /\ pc' = "initialised"
               /\ raised' = raised
               /\ sockets' = ExplicitSockets
       /\ (pc = "constructed" /\ pc' = "initialised" /\ effects' = effects)
            => sockets' = ExplicitSockets \cup LocalSockets
       /\ (pc = "constructed" /\ raised' # raised)
            => /\ raised' = raised \cup {"init"}
               /\ pc' = "failed"
               /\ sockets' = {}
       /\ pc' = "failed" => listening' = {} /\ idle' = <<>> /\ socket_cleanup' = <<>>]_vars

\* C31 witness: init() completed with the warning, and the listener of the
\* requested endpoint, and only that one, was started.
C31_Witness ==
    /\ pc = "running"
    /\ effects = <<LocalSocketsWarning>>
    /\ listening = ExplicitSockets
    /\ raised = {}

\* the idle tasks of a list that reply on instance p when they run
ReplyTasks(l, p) ==
    Cardinality({i \in 1..Len(l) : l[i].fn \in {"send_info", "process_control"} /\ l[i].proto = p})

\* C32: the step that handles a hello with a request either sends one packet,
\* a hello or a disconnect, on the instance of the request, or schedules one
\* task that replies, never both and never neither, and sends on no other
\* instance; the task, when it runs, sends one hello on that instance and
\* nothing else.
C32_OneResponsePerRequest ==
    [][/\ \A p \in started :
            (Len(request_log') = Len(request_log) + 1 /\ request_log'[Len(request_log')].proto = p)
            => /\ (Len(sent'[p]) - Len(sent[p])) + (ReplyTasks(idle', p) - ReplyTasks(idle, p)) = 1
               /\ \A i \in (Len(sent[p]) + 1)..Len(sent'[p]) :
                     sent'[p][i].type \in {"hello", "disconnect"}
               /\ \A q \in started \ {p} : sent'[q] = sent[q]
       /\ \A p \in started :
            (idle # <<>> /\ idle' = Tail(idle) /\ ReplyTasks(<<Head(idle)>>, p) = 1)
            => /\ Len(sent'[p]) = Len(sent[p]) + 1
               /\ sent'[p][Len(sent'[p])].type = "hello"
               /\ \A q \in started \ {p} : sent'[q] = sent[q]]_vars

\* C32 witness: the info request of an instance was deferred and its task has
\* run: one hello was sent on the instance and no task is left.
C32_Witness ==
    \E p \in started :
        /\ Len(request_log) = 1
        /\ request_log[1] = [proto |-> p, request |-> "info", allowed |-> TRUE]
        /\ idle = <<>>
        /\ Len(sent[p]) = 1
        /\ sent[p][1].type = "hello"

CloseState == <<close_timers, potential_protocols, closed, sent, wire, idle, done_callbacks,
                effects, exit_code, raised>>

\* C34: the close step for an instance that has no entry in the timer map
\* and is not in the pending list, run by a timer that fires or for a
\* connection-lost or gibberish packet, changes nothing: nothing is closed,
\* nothing is sent, no exception is raised.
C34_CloseIdempotent ==
    [][/\ \A t \in timers :
            (timers' = timers \ {t} /\ t.proto \notin DOMAIN close_timers /\ ~Pending(t.proto))
            => UNCHANGED CloseState
       /\ \A p \in started :
            (/\ Len(received'[p]) = Len(received[p]) + 1
             /\ received'[p][Len(received'[p])] \in {CONNECTION_LOST, GIBBERISH}
             /\ p \notin DOMAIN close_timers
             /\ ~Pending(p))
            => UNCHANGED CloseState /\ timers' = timers]_vars

\* C34 witness: two hellos armed two timers for an instance and both have
\* fired; the second found the instance closed and removed, and it was closed
\* once.
C34_Witness ==
    \E p \in started :
        /\ received[p] = <<"hello", "hello">>
        /\ next_tid = 3
        /\ timers = {}
        /\ ncleanups = 0
        /\ closed[p] = 1
        /\ ~Pending(p)
        /\ raised = {}

\* C35: the step that handles a hello whose capabilities have no request
\* sends nothing, asks for no authorization, schedules no task and runs no
\* handler; the instance stays in the pending list, open, and a timer is
\* armed and recorded for it.
C35_HelloWithoutRequest ==
    [][\A p \in started :
          (Len(negotiated'[p]) = Len(negotiated[p]) + 1 /\ request_log' = request_log)
          => /\ sent' = sent
             /\ wire' = wire
             /\ idle' = idle
             /\ done_callbacks' = done_callbacks
             /\ effects' = effects
             /\ raised' = raised
             /\ closed' = closed
             /\ potential_protocols' = potential_protocols
             /\ Pending(p)
             /\ timers' = timers \cup {[tid |-> next_tid, proto |-> p,
                                        delay |-> REQUEST_TIMEOUT * 1000]}
             /\ p \in DOMAIN close_timers'
             /\ close_timers'[p] = next_tid]_vars

\* C35 witness: the only packet of an instance was a hello without a request:
\* nothing was sent or asked, the instance is pending and has a timer.
C35_Witness ==
    \E p \in started :
        /\ received[p] = <<"hello">>
        /\ Len(negotiated[p]) = 1
        /\ request_log = <<>>
        /\ sent[p] = <<>>
        /\ idle = <<>>
        /\ Pending(p)
        /\ p \in DOMAIN close_timers
        /\ LiveTimers(p) # {}

\* C36: every instance that has an entry in the timer map is in the pending
\* list.
C36_TimersOnlyForPending == \A p \in DOMAIN close_timers : Pending(p)

\* C36 witness: a timer was armed for an instance and armed again for its
\* second packet; the instance has an entry in the map and is pending.
C36_Witness ==
    \E p \in started :
        /\ received[p] = <<"ping", "hello">>
        /\ p \in DOMAIN close_timers
        /\ close_timers[p] = 2
        /\ Pending(p)

\* C37: when connections arrive on the accepted sockets only, the pending
\* list never holds more than MAX_CONCURRENT_CONNECTIONS instances, and the
\* step that adds an instance found fewer than that many in the list,
\* whatever packets and timers come in between.
C37_SocketAdmissionAtomic ==
    [][/\ Len(potential_protocols') <= MAX_CONCURRENT_CONNECTIONS
       /\ Len(potential_protocols') > Len(potential_protocols)
            => /\ Len(potential_protocols) < MAX_CONCURRENT_CONNECTIONS
               /\ Len(potential_protocols') = Len(potential_protocols) + 1]_vars

\* C37 witness: the list holds the bound and a connection that arrived on a
\* socket was refused.
C37_Witness ==
    /\ Len(potential_protocols) = MAX_CONCURRENT_CONNECTIONS
    /\ conn_closed # {}
    /\ Cardinality(started) = MAX_CONCURRENT_CONNECTIONS

\* C38: once the exit code is set no step accepts a connection, creates an
\* instance, closes a connection or adds to the pending list; the step in
\* which a listener is notified removes that listener from the main loop and
\* changes nothing else.
C38_NoAdmissionDuringShutdown ==
    [][exit_code # None
       => /\ nconn' = nconn
          /\ started' = started
          /\ conn_closed' = conn_closed
          /\ Len(potential_protocols') <= Len(potential_protocols)
          /\ (~(listening \subseteq listening') /\ ncleanups' = ncleanups)
               => /\ Cardinality(listening \ listening') = 1
                  /\ UNCHANGED <<pc, exit_code, sockets, socket_info, socket_cleanup,
                                 potential_protocols, close_timers, idle, timers, next_tid,
                                 closed, received, sent, wire, negotiated, inbox, delivered,
                                 done_callbacks, effects, cleanup_log, npackets, nrequests,
                                 request_log, raised>>]_vars

\* C38 witness: the exit code is set, both listeners were started, none was
\* cleaned up, and one of them is gone: it was notified of a connection.
C38_Witness ==
    /\ exit_code # None
    /\ Len(socket_cleanup) = 2
    /\ ncleanups = 0
    /\ Cardinality(listening) = 1

\* the request that a hello reply answers, told by the keys of its payload
RequestOf(packet) ==
    CASE "version" \in DOMAIN packet.data -> "version"
      [] "command_response" \in DOMAIN packet.data -> "command"
      [] "network" \in DOMAIN packet.data -> "info"
      [] "pid" \in DOMAIN packet.data -> "id"

\* the requests dispatched for instance p, in the order of their hellos
RequestsOf(p) == SelectSeq(request_log, LAMBDA r : r.proto = p)

\* C39: the replies sent on an instance answer its requests in the order in
\* which the requests were received: the i-th reply answers the i-th request.
C39_RepliesInRequestOrder ==
    \A p \in started :
        \A i \in 1..Len(sent[p]) :
            /\ i <= Len(RequestsOf(p))
            /\ RequestOf(sent[p][i]) = RequestsOf(p)[i].request

====
